---- MODULE Spec2Model ----
(***************************************************************************)
(* Session bootstrap of the Impact API client (src/src/api.ts, class Api). *)
(*                                                                         *)
(* One client object is constructed, then domain calls (getWorkspaces and  *)
(* its siblings) and setImpactToken are invoked on it.  Every domain call  *)
(* is an asynchronous task: it runs until its next await, and any other    *)
(* task, or a synchronous setImpactToken, may run between two of its       *)
(* steps.  Each action below is one such uninterrupted stretch of code.    *)
(*                                                                         *)
(* JavaScript values are modelled as strings; Undefined and Null stand for *)
(* the values undefined and null.                                          *)
(***************************************************************************)
EXTENDS Naturals, Sequences, FiniteSets, TLC

\* ---------------------------------------------------------------- bounds
NumCalls == 2       \* domain calls invoked on the client
MaxSets == 1        \* external setImpactToken calls

Calls == 1..NumCalls

\* ---------------------------------------------------------------- values
Undefined == "undefined"
Null == "null"

\* JavaScript truthiness of a string, null or undefined value
Truthy(v) == v # Undefined /\ v # Null /\ v # ""

\* error codes of ./api-error, used by api.ts
MissingJupyterHubToken == "MissingJupyterHubToken"
ServerNotStarted == "ServerNotStarted"
JhTokenError == "JhTokenError"
MissingAccessTokenCookie == "MissingAccessTokenCookie"
UnknownApiError == "UnknownApiError"

\* new ApiError({errorCode, httpCode})
ApiError(code, http) == [cls |-> "ApiError", code |-> code, http |-> http]

\* an AxiosError e: code is e.response?.data?.error?.code, http is
\* e.response?.status
AxiosError(code, http) == [cls |-> "AxiosError", code |-> code, http |-> http]

\* the ReferenceError of reading the global `document` where none exists
ReferenceError == [cls |-> "ReferenceError", code |-> Undefined, http |-> Undefined]

NoError == [cls |-> "none", code |-> Undefined, http |-> Undefined]

\* the transport failures the environment may produce: no response at all,
\* a bare 401, a 400 with a structured error body
TransportFailures ==
    { AxiosError(Undefined, Undefined),
      AxiosError(Undefined, "401"),
      AxiosError("12002", "400") }

\* a classifier that wraps whatever it is given
toApiError_WrapsAll(e) ==
    ApiError(IF e.cls = "AxiosError" /\ Truthy(e.code) THEN e.code ELSE UnknownApiError, e.http)

\* const toApiError = (e) => e instanceof AxiosError ? new ApiError(...) : e
toApiError(e) ==
    IF e.cls = "AxiosError"
    THEN ApiError(IF Truthy(e.code) THEN e.code ELSE UnknownApiError, e.http)
    ELSE e

\* ---------------------------------------------------------------- inputs
GatewayCredentials == {Undefined, "", "jh"}
SuppliedPaths == {Undefined, "", "/user/a", "/user/a/"}
ServerFields == {Undefined, Null, "", "/user/b/", "/user/c/"}
\* The two paths are interchangeable names, so the first path the gateway
\* hands out is called /user/b/; /user/c/ is a different path handed out
\* once a path is known.
LookupAnswers(path) == IF Truthy(path) THEN ServerFields ELSE ServerFields \ {"/user/c/"}
\* the token of the n-th setImpactToken call: the calls supply distinct tokens
SetToken(n) == "t" \o ToString(n)

\* jupyterHubUserPath + (jupyterHubUserPath.endsWith('/') ? '' : '/')
EndsWithSlash(s) == Len(s) > 0 /\ SubSeq(s, Len(s), Len(s)) = "/"
WithSlash(s) == s \o (IF EndsWithSlash(s) THEN "" ELSE "/")

\* ---------------------------------------------------------------- cookies
AccessTokenKey == "access_token"

\* Of a tough-cookie jar the model keeps the cookies that getCookies returns
\* for the URL baseUrl + jhUserPath; a cookie scoped elsewhere is as good as
\* absent.
JarCookie(key, value) == [key |-> key, value |-> value]

\* what the login response may store in the jar of the client that sent it
LoginJarCookies == { {}, {JarCookie(AccessTokenKey, "ck")} }

\* what the login response may leave in document.cookie (browser)
LoginDocumentCookies == { <<>>, <<[key |-> AccessTokenKey, value |-> "ck"]>> }

\* CookieJar.setCookie: a cookie replaces the one of the same key
StoreCookies(jar, cs) == { c \in jar : ~ \E d \in cs : d.key = c.key } \cup cs

VARIABLES
    isNode,         \* isNode(): typeof window === 'undefined'
    failure,        \* the AxiosError with which requests fail in this run
    documentCookie, \* document.cookie as a sequence of key=value pairs
    obj,            \* "none" before construction, "ready", or "failed"
    supplied,       \* which optional arguments the constructor was given
    ctorError,      \* the error the constructor threw
    impactApiKey, impactToken, jhToken, jhUserPath,
    axios,          \* identity of the current AxiosInstance (0: none yet)
    axiosConfig,    \* [headers, jar]; jar is a jar identity, 0 when absent
    jarCookies,     \* the cookies held by the jar bound to axiosConfig
    pc,             \* pc[p]: where domain call p stands
    err,            \* err[p]: the error call p was rejected with
    reqJar,         \* reqJar[p]: jar of the client that sent p's login request
    loginCookies,   \* loginCookies[p]: what the login response of p set, kept
                    \* while p awaits getCookies
    cookies,        \* cookies[p]: result of p's pending getCookies
    sent,           \* sent[p]: the requests call p has issued
    sets,           \* number of setImpactToken calls so far
    nextCall        \* the first call started since the latest setImpactToken

vars == << isNode, failure, documentCookie, obj, supplied, ctorError, impactApiKey,
           impactToken, jhToken, jhUserPath, axios, axiosConfig, jarCookies, pc, err,
           reqJar, loginCookies, cookies, sent, sets, nextCall >>

\* ---------------------------------------------------------------- helpers
HeaderNames == {"Authorization", "Impact-Authorization"}

\* the headers built by configureAxios and by ensureAxiosConfig: the gateway
\* credential always, the bearer header only for a truthy impactToken
Headers(jh, tok) ==
    [h \in HeaderNames |->
        IF h = "Authorization" THEN "token " \o jh
        ELSE IF Truthy(tok) THEN "Bearer " \o tok ELSE Undefined]

\* configureAxios: this.axiosConfig = { headers } (no jar)
ConfiguredAxios(jh, tok) == [headers |-> Headers(jh, tok), jar |-> 0]

\* isConfiguredForNode = () => !!this.axiosConfig.jar
isConfiguredForNode(cfg) == cfg.jar # 0

\* a test that never finds the header
isConfiguredForImpact_Never(cfg) == FALSE

\* isConfiguredForImpact = () => !!this.axiosConfig.headers['Impact-Authorization']
isConfiguredForImpact(cfg) == Truthy(cfg.headers["Impact-Authorization"])

\* getNodeCookieJar = () => this.axiosConfig.jar
getNodeCookieJar(cfg) == cfg.jar

\* the condition under which ensureAxiosConfig rebuilds the client
NeedsRebuild(node, tok, cfg) ==
    IF node
    THEN ~isConfiguredForNode(cfg) \/ (Truthy(tok) /\ ~isConfiguredForImpact(cfg))
    ELSE Truthy(tok) /\ ~isConfiguredForImpact(cfg)

\* getCookieValue(key): `; ${document.cookie}`.split(`; ${key}=`) has two
\* parts exactly when the key occurs once
getCookieValue(doc, key) ==
    LET occ == { i \in 1..Len(doc) : doc[i].key = key }
    IN  IF Cardinality(occ) = 1 THEN doc[CHOOSE i \in occ : TRUE].value ELSE Undefined

\* the browser storing the cookies of a response in document.cookie
StoreDocumentCookies(doc, cs) ==
    SelectSeq(doc, LAMBDA c : ~ \E i \in 1..Len(cs) : cs[i].key = c.key) \o cs

\* getValueFromJarCookies: cookies.find((c) => c.key === key)
FoundInJarCookies(key, cs) == \E c \in cs : c.key = key
getValueFromJarCookies(key, cs) == (CHOOSE c \in cs : c.key = key).value

\* a constructor that drops its jupyterHubUserPath argument
ConstructorUserPath_Dropped(path) == Undefined

\* the jhUserPath the constructor stores for its jupyterHubUserPath argument
ConstructorUserPath(path) == IF Truthy(path) THEN WithSlash(path) ELSE Undefined

\* requests issued so far
NoRequests == [lookup |-> FALSE, login |-> FALSE, domain |-> FALSE]
numLookups == Cardinality({ p \in Calls : sent[p].lookup })
numLogins == Cardinality({ p \in Calls : sent[p].login })
numDomain == Cardinality({ p \in Calls : sent[p].domain })

\* ---------------------------------------------------------------- Init
NothingSupplied == [credential |-> FALSE, path |-> FALSE, token |-> FALSE]

Init ==
    /\ isNode \in BOOLEAN
    /\ failure \in TransportFailures
    /\ documentCookie = << [key |-> "lang", value |-> "en"] >>
    /\ obj = "none"
    /\ supplied = NothingSupplied
    /\ ctorError = NoError
    /\ impactApiKey = Undefined
    /\ impactToken = Undefined
    /\ jhToken = Undefined
    /\ jhUserPath = Undefined
    /\ axios = 0
    /\ axiosConfig = [headers |-> [h \in HeaderNames |-> Undefined], jar |-> 0]
    /\ jarCookies = {}
    /\ pc = [p \in Calls |-> "idle"]
    /\ err = [p \in Calls |-> NoError]
    /\ reqJar = [p \in Calls |-> 0]
    /\ loginCookies = [p \in Calls |-> {}]
    /\ cookies = [p \in Calls |-> {}]
    /\ sent = [p \in Calls |-> NoRequests]
    /\ sets = 0
    /\ nextCall = 0

\* ---------------------------------------------------------------- construction
\* a credential the guard passes only if it were compared with undefined
CredentialMissing_OnlyUndefined(jupyterHubToken) == jupyterHubToken = Undefined

\* if (!jupyterHubToken) throw ...
CredentialMissing(jupyterHubToken) == ~Truthy(jupyterHubToken)

\* private constructor({impactApiKey, impactToken, jupyterHubToken, jupyterHubUserPath})
Constructor(args) ==
    /\ obj = "none"
    /\ supplied' = [credential |-> Truthy(args.jupyterHubToken),
                     path |-> Truthy(args.jupyterHubUserPath),
                     token |-> Truthy(args.impactToken)]
    /\ IF CredentialMissing(args.jupyterHubToken)
       THEN /\ obj' = "failed"
            /\ ctorError' = ApiError(MissingJupyterHubToken, Undefined)
            /\ UNCHANGED << impactApiKey, impactToken, jhToken, jhUserPath, axios, axiosConfig >>
       ELSE /\ obj' = "ready"
            /\ ctorError' = NoError
            /\ impactApiKey' = args.impactApiKey
            /\ impactToken' = args.impactToken
            /\ jhUserPath' = ConstructorUserPath(args.jupyterHubUserPath)
            /\ jhToken' = args.jupyterHubToken
            /\ axiosConfig' = ConfiguredAxios(args.jupyterHubToken, args.impactToken)
            /\ axios' = axios + 1
    /\ UNCHANGED << isNode, failure, documentCookie, jarCookies, pc, err, reqJar, loginCookies, cookies, sent, sets, nextCall >>

\* static fromImpactApiKey({impactApiKey, jupyterHubToken, jupyterHubUserPath})
fromImpactApiKey ==
    \E jh \in GatewayCredentials, path \in SuppliedPaths :
        Constructor([impactApiKey |-> "sk", impactToken |-> Undefined,
                     jupyterHubToken |-> jh, jupyterHubUserPath |-> path])

\* static fromImpactToken({impactToken, jupyterHubToken, jupyterHubUserPath})
fromImpactToken ==
    \E jh \in GatewayCredentials, path \in SuppliedPaths :
        Constructor([impactApiKey |-> Undefined, impactToken |-> "t0",
                     jupyterHubToken |-> jh, jupyterHubUserPath |-> path])

\* setImpactToken = (token) => { this.impactToken = token; this.configureAxios() }
setImpactToken(token) ==
    /\ obj = "ready"
    /\ sets < MaxSets
    /\ token = SetToken(sets + 1)
    /\ impactToken' = token
    /\ axiosConfig' = ConfiguredAxios(jhToken, token)
    /\ axios' = axios + 1
    /\ sets' = sets + 1
    /\ jarCookies' = {}
    /\ nextCall' = 0
    /\ UNCHANGED << isNode, failure, documentCookie, obj, supplied, ctorError, impactApiKey,
                    jhToken, jhUserPath, pc, err, reqJar, loginCookies, cookies, sent >>

\* ---------------------------------------------------------------- transport
\* ensureAxiosConfig up to its first await: nothing when the configuration
\* is current, the browser rebuild at once, the headless rebuild only after
\* its two awaited imports
EnsureAxiosConfigEnter(tok, cfg, ax) ==
    IF ~NeedsRebuild(isNode, tok, cfg)
    THEN [cfg |-> cfg, axios |-> ax, imports |-> FALSE]
    ELSE IF isNode
    THEN [cfg |-> cfg, axios |-> ax, imports |-> TRUE]
    ELSE [cfg |-> [headers |-> Headers(jhToken, tok), jar |-> 0],
          axios |-> ax + 1, imports |-> FALSE]

\* a rejection that hands the caller the error as it was thrown
Reject_Raw(p, e) ==
    /\ pc' = [pc EXCEPT ![p] = "rejected"]
    /\ err' = [err EXCEPT ![p] = e]

\* the promise of the domain call is rejected: reject(toApiError(e))
Reject(p, e) ==
    /\ pc' = [pc EXCEPT ![p] = "rejected"]
    /\ err' = [err EXCEPT ![p] = toApiError(e)]

\* a catch block that reclassifies whatever was thrown
LookupCatch_Reclassifies(e) == ApiError(JhTokenError, e.http)

\* a catch block that forgets the transport status
LookupCatch_NoStatus(e) == IF e.cls = "AxiosError" THEN ApiError(JhTokenError, Undefined) ELSE e

\* the catch block of ensureJhUserPath
LookupCatch(e) == IF e.cls = "AxiosError" THEN ApiError(JhTokenError, e.http) ELSE e

\* ---------------------------------------------------------------- domain calls
\* The domain operations differ, for this model, in one respect only: whether
\* the promise of the domain request has a .catch handler.  getWorkspaces
\* stands for the operations that have one (all but one of them),
\* getExperimentTrajectories is the one that has none.
DomainOperations == {"getWorkspaces", "getExperimentTrajectories"}

\* whether the operation ends its domain request with
\* .catch((e) => reject(toApiError(e)))
CatchesDomainFailure(operation) == operation # "getExperimentTrajectories"

\* the domain calls invoked and not yet settled (a call left pending for
\* ever is one of them)
InFlight == { p \in Calls : pc[p] \notin {"idle", "resolved", "rejected"} }

\* a domain call is invoked: new Promise(...) runs ensureImpactToken up to
\* the first await inside ensureAxiosConfig.  The calls are invoked in the
\* order of their numbers, and at most two of them overlap.
StartCall(p) ==
    /\ obj = "ready"
    /\ pc[p] = "idle"
    /\ \A q \in Calls : q < p => pc[q] # "idle"
    /\ Cardinality(InFlight) < 2
    /\ LET r == EnsureAxiosConfigEnter(impactToken, axiosConfig, axios)
       IN  /\ axiosConfig' = r.cfg
           /\ axios' = r.axios
           /\ pc' = [pc EXCEPT ![p] = IF r.imports THEN "imp1" ELSE "path"]
    /\ nextCall' = IF sets > 0 /\ nextCall = 0 THEN p ELSE nextCall
    /\ UNCHANGED << isNode, failure, documentCookie, obj, supplied, ctorError, impactApiKey,
                    impactToken, jhToken, jhUserPath, jarCookies, err, reqJar, loginCookies, cookies,
                    sent, sets >>

\* the two awaited imports of ensureAxiosConfig have completed (nothing of
\* the client is read or written between them): a new jar, the headers for
\* the impactToken of this moment, a new wrapped client
RebuildForNode(p) ==
    /\ pc[p] \in {"imp1", "imp2"}
    /\ jarCookies' = {}
    /\ axiosConfig' = [headers |-> Headers(jhToken, impactToken), jar |-> axios + 1]
    /\ axios' = axios + 1
    /\ pc' = [pc EXCEPT ![p] = IF pc[p] = "imp1" THEN "path" ELSE "ready"]
    /\ UNCHANGED << isNode, failure, documentCookie, obj, supplied, ctorError, impactApiKey,
                    impactToken, jhToken, jhUserPath, err, reqJar, loginCookies, cookies, sent,
                    sets, nextCall >>

\* an ensureJhUserPath whose gateway lookup is issued but not awaited
EnsureJhUserPath_NotAwaited(p) ==
    /\ pc[p] = "path"
    /\ pc' = [pc EXCEPT ![p] = "token"]
    /\ sent' = IF Truthy(jhUserPath) THEN sent ELSE [sent EXCEPT ![p].lookup = TRUE]
    /\ UNCHANGED << isNode, failure, documentCookie, obj, supplied, ctorError, impactApiKey,
                    impactToken, jhToken, jhUserPath, axios, axiosConfig, jarCookies, err,
                    reqJar, loginCookies, cookies, sets, nextCall >>

\* ensureJhUserPath up to its await: return when the path is known, else
\* GET /hub/api/authorizations/token/<jhToken>
EnsureJhUserPath(p) ==
    /\ pc[p] = "path"
    /\ IF Truthy(jhUserPath)
       THEN /\ pc' = [pc EXCEPT ![p] = "token"]
            /\ UNCHANGED sent
       ELSE /\ pc' = [pc EXCEPT ![p] = "lookup"]
            /\ sent' = [sent EXCEPT ![p].lookup = TRUE]
    /\ UNCHANGED << isNode, failure, documentCookie, obj, supplied, ctorError, impactApiKey,
                    impactToken, jhToken, jhUserPath, axios, axiosConfig, jarCookies, err,
                    reqJar, loginCookies, cookies, sets, nextCall >>

\* a lookup handler that stores the server field before it tests it
LookupReplies_StoresFirst(p, server) ==
    /\ pc[p] = "lookup"
    /\ jhUserPath' = server
    /\ IF ~Truthy(server)
       THEN Reject(p, LookupCatch(ApiError(ServerNotStarted, Undefined)))
       ELSE /\ pc' = [pc EXCEPT ![p] = "token"]
            /\ UNCHANGED err
    /\ UNCHANGED << isNode, failure, documentCookie, obj, supplied, ctorError, impactApiKey,
                    impactToken, jhToken, axios, axiosConfig, jarCookies, reqJar,
                    loginCookies, cookies, sent, sets, nextCall >>

\* the gateway lookup answered with `server` in its body:
\* const { server } = response.data
LookupReplies(p, server) ==
    /\ pc[p] = "lookup"
    /\ IF ~Truthy(server)
       THEN /\ Reject(p, LookupCatch(ApiError(ServerNotStarted, Undefined)))
            /\ UNCHANGED jhUserPath
       ELSE /\ jhUserPath' = server
            /\ pc' = [pc EXCEPT ![p] = "token"]
            /\ UNCHANGED err
    /\ UNCHANGED << isNode, failure, documentCookie, obj, supplied, ctorError, impactApiKey,
                    impactToken, jhToken, axios, axiosConfig, jarCookies, reqJar, loginCookies, cookies,
                    sent, sets, nextCall >>

\* the gateway lookup failed at the transport level
LookupFails(p) ==
    /\ pc[p] = "lookup"
    /\ Reject(p, LookupCatch(failure))
    /\ UNCHANGED << isNode, failure, documentCookie, obj, supplied, ctorError, impactApiKey,
                    impactToken, jhToken, jhUserPath, axios, axiosConfig, jarCookies,
                    reqJar, loginCookies, cookies, sent, sets, nextCall >>

\* a guard that never takes the early return
TokenHeld_Never(tok) == FALSE

\* if (this.impactToken) return
TokenHeld(tok) == Truthy(tok)

\* ensureImpactToken after ensureJhUserPath: return when a token is held,
\* else POST <jhUserPath>impact/api/login on the current client
AcquireToken(p) ==
    /\ pc[p] = "token"
    /\ IF TokenHeld(impactToken)
       THEN /\ pc' = [pc EXCEPT ![p] = "ready"]
            /\ UNCHANGED << sent, reqJar >>
       ELSE /\ pc' = [pc EXCEPT ![p] = "login"]
            /\ sent' = [sent EXCEPT ![p].login = TRUE]
            /\ reqJar' = [reqJar EXCEPT ![p] = axiosConfig.jar]
    /\ UNCHANGED << isNode, failure, loginCookies, documentCookie, obj, supplied, ctorError, impactApiKey,
                    impactToken, jhToken, jhUserPath, axios, axiosConfig, jarCookies, err,
                    cookies, sets, nextCall >>

\* the login exchange answered: the response's cookies go to the jar of the
\* client that sent the request (headless) or to document.cookie (browser);
\* then the token is read back through the jar bound now, or from
\* document.cookie when none is bound
LoginSucceeds(p) ==
    /\ pc[p] = "login"
    /\ \E cs \in LoginJarCookies, ds \in LoginDocumentCookies :
          /\ isNode => ds = << >>
          /\ ~isNode => cs = {}
          /\ jarCookies' = IF isNode /\ reqJar[p] # 0 /\ reqJar[p] = axiosConfig.jar
                           THEN StoreCookies(jarCookies, cs)
                           ELSE jarCookies
          /\ documentCookie' = IF isNode THEN documentCookie
                               ELSE StoreDocumentCookies(documentCookie, ds)
          /\ LET nodeCookieJar == getNodeCookieJar(axiosConfig)
             IN  IF nodeCookieJar # 0
                 THEN /\ cookies' = [cookies EXCEPT ![p] = jarCookies']
                      /\ loginCookies' = [loginCookies EXCEPT ![p] = cs]
                      /\ pc' = [pc EXCEPT ![p] = "getCookies"]
                      /\ UNCHANGED << impactToken, axiosConfig, axios, err >>
                 ELSE IF isNode
                 THEN /\ Reject(p, ReferenceError)
                      /\ UNCHANGED << impactToken, axiosConfig, axios, cookies,
                                      loginCookies >>
                 ELSE LET tok == getCookieValue(documentCookie', AccessTokenKey)
                          r == EnsureAxiosConfigEnter(tok, axiosConfig, axios)
                      IN  /\ impactToken' = tok
                          /\ axiosConfig' = r.cfg
                          /\ axios' = r.axios
                          /\ pc' = [pc EXCEPT ![p] = IF r.imports THEN "imp2" ELSE "ready"]
                          /\ UNCHANGED << err, cookies, loginCookies >>
    /\ reqJar' = [reqJar EXCEPT ![p] = 0]
    /\ UNCHANGED << isNode, failure, obj, supplied, ctorError, impactApiKey, jhToken,
                    jhUserPath, sent, sets, nextCall >>

\* the login exchange failed at the transport level
LoginFails(p) ==
    /\ pc[p] = "login"
    /\ Reject(p, failure)
    /\ reqJar' = [reqJar EXCEPT ![p] = 0]
    /\ UNCHANGED << isNode, failure, loginCookies, documentCookie, obj, supplied, ctorError, impactApiKey,
                    impactToken, jhToken, jhUserPath, axios, axiosConfig, jarCookies,
                    cookies, sent, sets, nextCall >>

\* a read-back that tolerates a missing cookie the way the browser branch does
ReadJarCookies_Tolerant(p) ==
    /\ pc[p] = "getCookies"
    /\ impactToken' = IF FoundInJarCookies(AccessTokenKey, cookies[p])
                      THEN getValueFromJarCookies(AccessTokenKey, cookies[p])
                      ELSE Undefined
    /\ pc' = [pc EXCEPT ![p] =
                IF NeedsRebuild(isNode, impactToken', axiosConfig) THEN "imp2" ELSE "ready"]
    /\ cookies' = [cookies EXCEPT ![p] = {}]
    /\ loginCookies' = [loginCookies EXCEPT ![p] = {}]
    /\ UNCHANGED << isNode, failure, documentCookie, obj, supplied, ctorError,
                    impactApiKey, jhToken, jhUserPath, axios, axiosConfig, jarCookies,
                    err, reqJar, sent, sets, nextCall >>

\* await nodeCookieJar.getCookies(...) has completed:
\* this.impactToken = getValueFromJarCookies('access_token', cookies), then
\* ensureAxiosConfig up to its first await
ReadJarCookies(p) ==
    /\ pc[p] = "getCookies"
    /\ IF FoundInJarCookies(AccessTokenKey, cookies[p])
       THEN LET tok == getValueFromJarCookies(AccessTokenKey, cookies[p])
                r == EnsureAxiosConfigEnter(tok, axiosConfig, axios)
            IN  /\ impactToken' = tok
                /\ axiosConfig' = r.cfg
                /\ axios' = r.axios
                /\ pc' = [pc EXCEPT ![p] = IF r.imports THEN "imp2" ELSE "ready"]
                /\ UNCHANGED err
       ELSE /\ Reject(p, ApiError(MissingAccessTokenCookie, Undefined))
            /\ UNCHANGED << impactToken, axiosConfig, axios >>
    /\ cookies' = [cookies EXCEPT ![p] = {}]
    /\ loginCookies' = [loginCookies EXCEPT ![p] = {}]
    /\ UNCHANGED << isNode, failure, documentCookie, obj, supplied, ctorError, impactApiKey,
                    jhToken, jhUserPath, jarCookies, reqJar, sent, sets, nextCall >>

\* ensureImpactToken has resolved: the then-callback issues the domain
\* request on the current client
SendDomainRequest(p) ==
    /\ pc[p] = "ready"
    /\ pc' = [pc EXCEPT ![p] = "domain"]
    /\ sent' = [sent EXCEPT ![p].domain = TRUE]
    /\ UNCHANGED << isNode, failure, documentCookie, obj, supplied, ctorError, impactApiKey,
                    impactToken, jhToken, jhUserPath, axios, axiosConfig, jarCookies, err,
                    reqJar, loginCookies, cookies, sets, nextCall >>

\* the domain request answered: resolve(...)
DomainSucceeds(p) ==
    /\ pc[p] = "domain"
    /\ pc' = [pc EXCEPT ![p] = "resolved"]
    /\ UNCHANGED << isNode, failure, documentCookie, obj, supplied, ctorError, impactApiKey,
                    impactToken, jhToken, jhUserPath, axios, axiosConfig, jarCookies, err,
                    reqJar, loginCookies, cookies, sent, sets, nextCall >>

\* the domain request failed: .catch((e) => reject(toApiError(e))) where the
\* operation has that handler; where it has none the rejection of the
\* request is unhandled, neither resolve nor reject is ever called and the
\* promise of the call stays pending.  Nothing reads which operation was
\* invoked before this point, so the operation is drawn here.
DomainFails(p) ==
    /\ pc[p] = "domain"
    /\ \E operation \in DomainOperations :
          IF CatchesDomainFailure(operation)
          THEN Reject(p, failure)
          ELSE /\ pc' = [pc EXCEPT ![p] = "pending"]
               /\ UNCHANGED err
    /\ UNCHANGED << isNode, failure, documentCookie, obj, supplied, ctorError, impactApiKey,
                    impactToken, jhToken, jhUserPath, axios, axiosConfig, jarCookies,
                    reqJar, loginCookies, cookies, sent, sets, nextCall >>

\* the errors with which ensureImpactToken can reject from where call p
\* stands: what the catch block of ensureJhUserPath rethrows, the raw
\* AxiosError of the login exchange (ensureImpactToken catches nothing), the
\* ReferenceError of getCookieValue, the error of getValueFromJarCookies
BootstrapErrors(p) ==
    IF pc[p] = "lookup"
    THEN { LookupCatch(failure), LookupCatch(ApiError(ServerNotStarted, Undefined)) }
    ELSE IF pc[p] = "login" THEN { failure, ReferenceError }
    ELSE IF pc[p] = "getCookies" THEN { ApiError(MissingAccessTokenCookie, Undefined) }
    ELSE {}

\* what is thrown to the catch handlers of call p from where it stands: the
\* AxiosError of its domain request, or the error of its bootstrap
Thrown(p) == IF pc[p] = "domain" THEN {failure} ELSE BootstrapErrors(p)

\* ---------------------------------------------------------------- specifications
Step(p) ==
    \/ RebuildForNode(p)
    \/ EnsureJhUserPath(p)
    \/ \E server \in LookupAnswers(jhUserPath) : LookupReplies(p, server)
    \/ LookupFails(p)
    \/ AcquireToken(p)
    \/ LoginSucceeds(p)
    \/ LoginFails(p)
    \/ ReadJarCookies(p)
    \/ SendDomainRequest(p)
    \/ DomainSucceeds(p)
    \/ DomainFails(p)

Next ==
    \/ fromImpactApiKey
    \/ fromImpactToken
    \/ \E p \in Calls : StartCall(p)
    \/ \E p \in Calls : Step(p)
    \/ \E t \in {SetToken(n) : n \in 1..MaxSets} : setImpactToken(t)

Spec == Init /\ [][Next]_vars

\* no domain call is between its invocation and its settlement
Quiescent == InFlight = {}

\* sequential use: every domain call is awaited before the next call or
\* setImpactToken is made
NextSeq ==
    \/ fromImpactApiKey
    \/ fromImpactToken
    \/ \E p \in Calls : Quiescent /\ StartCall(p)
    \/ \E p \in Calls : Step(p)
    \/ \E t \in {SetToken(n) : n \in 1..MaxSets} : Quiescent /\ setImpactToken(t)

SpecSeq == Init /\ [][NextSeq]_vars

\* ---------------------------------------------------------------- properties
Settled == {"resolved", "rejected"}

\* a settled domain call issues nothing more and keeps its outcome
SettledStays ==
    \A p \in Calls :
        pc[p] \in Settled => pc'[p] = pc[p] /\ err'[p] = err[p] /\ sent'[p] = sent[p]

\* C1 (as stated): sequential bootstrap runs issue at most one login exchange
\* over the client's lifetime.
C1_AtMostOneLoginEver == numLogins <= 1

\* C1 (amended): in sequential use, once a session token is held it stays
\* held and no later step issues a login exchange; a login exchange is issued
\* only while no token is held.
C1_NoLoginOnceTokenHeld ==
    [][Truthy(impactToken) => Truthy(impactToken') /\ numLogins' = numLogins]_vars

\* the token was acquired by one call's login exchange and a later call has
\* finished its bootstrap without a login exchange of its own
C1_Witness ==
    /\ ~supplied.token /\ sets = 0
    /\ Truthy(impactToken)
    /\ numLogins = 1
    /\ \E p, q \in Calls :
          /\ sent[p].login /\ pc[p] \in Settled
          /\ ~sent[q].login /\ sent[q].domain

\* C2: of the domain calls that overlap, at most one has a gateway lookup in
\* flight and at most one has a login exchange in flight (the others wait
\* for that one instead of issuing their own).
C2_NoDuplicateBootstrapRequests ==
    /\ Cardinality({ p \in Calls : pc[p] = "lookup" }) <= 1
    /\ Cardinality({ p \in Calls : pc[p] = "login" }) <= 1

\* C3: the first domain call invoked after setImpactToken(t) sends its domain
\* request with Impact-Authorization 'Bearer t' and issues no login exchange.
C3_NextCallUsesSetToken ==
    [][ \A p \in Calls :
          nextCall = p /\ SendDomainRequest(p)
          => /\ axiosConfig.headers["Impact-Authorization"] = "Bearer " \o SetToken(sets)
             /\ ~sent[p].login ]_vars

\* C4: headless mode: when the jar queried after a successful login exchange
\* returns no access_token cookie, the call is rejected with
\* MissingAccessTokenCookie, an absent session token stays absent, and the
\* call has issued and will issue no domain request.
C4_MissingCookieRejects ==
    [][ /\ SettledStays
        /\ \A p \in Calls :
              ( /\ isNode
                /\ pc[p] = "getCookies" /\ pc'[p] # "getCookies"
                /\ ~FoundInJarCookies(AccessTokenKey, cookies[p]) )
              => /\ pc'[p] = "rejected"
                 /\ err'[p] = ApiError(MissingAccessTokenCookie, Undefined)
                 /\ (~Truthy(impactToken) => ~Truthy(impactToken'))
                 /\ ~sent'[p].domain ]_vars

C4_Witness ==
    \E p \in Calls :
        /\ isNode
        /\ pc[p] = "rejected"
        /\ err[p].code = MissingAccessTokenCookie
        /\ sent[p].login /\ ~sent[p].domain
        /\ ~Truthy(impactToken)

\* C5: browser mode: when document.cookie holds no access_token after a
\* successful login exchange, the bootstrap of that call completes without
\* error, the session token is undefined and the transport configuration
\* holds no Impact-Authorization header.
C5_AbsentCookieTolerated ==
    [][ \A p \in Calls :
          ( /\ ~isNode
            /\ pc[p] = "login" /\ pc'[p] # "login"
            /\ err'[p] # toApiError(failure)
            /\ getCookieValue(documentCookie', AccessTokenKey) = Undefined )
          => /\ pc'[p] = "ready"
             /\ err'[p] = NoError
             /\ impactToken' = Undefined
             /\ ~isConfiguredForImpact(axiosConfig') ]_vars

\* C6: a client constructed with a routing path never issues a gateway
\* lookup.
C6_NoLookupWithSuppliedPath == supplied.path => numLookups = 0

C6_Witness ==
    /\ supplied.path
    /\ sets > 0
    /\ \A p \in Calls : pc[p] \in Settled
    /\ \E p \in Calls : sent[p].domain

\* C7: a client constructed with a session token never issues a login
\* exchange: every bootstrap is complete once the path step is.
C7_NoLoginWithSuppliedToken ==
    supplied.token =>
        /\ numLogins = 0
        /\ \A p \in Calls : pc[p] \notin {"login", "getCookies", "imp2"}

C7_Witness ==
    /\ supplied.token
    /\ ~supplied.path
    /\ numLookups > 0
    /\ \A p \in Calls : pc[p] = "resolved"

\* C8: a gateway lookup answered without a truthy server field rejects the
\* call with ServerNotStarted, leaves an absent routing path absent, and the
\* call never issues a login exchange.
C8_ServerNotStarted ==
    [][ /\ SettledStays
        /\ \A p \in Calls : \A server \in ServerFields :
              LookupReplies(p, server) /\ ~Truthy(server)
              => /\ pc'[p] = "rejected"
                 /\ err'[p] = ApiError(ServerNotStarted, Undefined)
                 /\ (~Truthy(jhUserPath) => ~Truthy(jhUserPath'))
                 /\ ~sent'[p].login ]_vars

C8_Witness ==
    \E p \in Calls :
        /\ pc[p] = "rejected"
        /\ err[p].code = ServerNotStarted
        /\ sent[p].lookup /\ ~sent[p].login
        /\ ~Truthy(jhUserPath)

\* C9: a gateway lookup that fails at the transport level rejects the call
\* with JhTokenError carrying the transport status (when there is one), and
\* the call never issues a login exchange.
C9_JhTokenError ==
    [][ /\ SettledStays
        /\ \A p \in Calls :
              LookupFails(p)
              => /\ pc'[p] = "rejected"
                 /\ err'[p] = ApiError(JhTokenError, failure.http)
                 /\ ~sent'[p].login ]_vars

C9_Witness ==
    \E p \in Calls :
        /\ pc[p] = "rejected"
        /\ err[p] = ApiError(JhTokenError, "401")
        /\ sent[p].lookup /\ ~sent[p].login

\* C10: construction without a gateway credential (absent or empty) fails
\* with MissingJupyterHubToken; no client has been configured and no request
\* is ever issued.
C10_MissingCredentialFails ==
    obj # "none" /\ ~supplied.credential =>
        /\ obj = "failed"
        /\ ctorError = ApiError(MissingJupyterHubToken, Undefined)
        /\ axios = 0
        /\ \A h \in HeaderNames : axiosConfig.headers[h] = Undefined
        /\ \A p \in Calls : pc[p] = "idle" /\ sent[p] = NoRequests

C10_Witness ==
    /\ obj = "failed"
    /\ ~supplied.credential
    /\ ctorError.code = MissingJupyterHubToken

\* C11: every domain call settles: a domain request that fails at the
\* transport level rejects the call with toApiError's error, one that
\* succeeds resolves it, and no call is left pending with nothing more to run.
C11_EveryCallSettles ==
    [][ \A p \in Calls :
          /\ DomainFails(p) => pc'[p] = "rejected" /\ err'[p] = toApiError(failure)
          /\ DomainSucceeds(p) => pc'[p] = "resolved"
          /\ pc'[p] # "pending" ]_vars

\* where a call stands once its domain request has been issued
AfterDomainRequest == {"domain", "resolved", "rejected", "pending"}

\* a call issues its domain request at most once, in the step that follows
\* the successful completion of its own bootstrap; a step that rejects the
\* bootstrap leaves the call without a domain request
C12_RequestAfterBootstrap(p) ==
    /\ sent'[p].domain /\ ~sent[p].domain => pc[p] = "ready" /\ pc'[p] = "domain"
    /\ sent[p].domain => pc[p] \in AfterDomainRequest /\ pc'[p] \in AfterDomainRequest
    /\ pc[p] \notin AfterDomainRequest /\ pc'[p] = "rejected" => ~sent'[p].domain

\* C12 (as stated): a domain call issues its domain request at most once and
\* only after its own bootstrap completed; when the bootstrap rejects, the
\* call issues no domain request and is rejected with the very error the
\* bootstrap rejected with.
C12_RejectsWithBootstrapError ==
    [][ \A p \in Calls :
          /\ C12_RequestAfterBootstrap(p)
          /\ pc[p] \notin AfterDomainRequest /\ pc'[p] = "rejected" => err'[p] \in BootstrapErrors(p) ]_vars

\* C12 (amended): as above, but the call is rejected with what toApiError
\* makes of the bootstrap's error: the error itself unless it is the raw
\* AxiosError of a failed login exchange, which becomes an ApiError.
C12_RejectsWithClassifiedError ==
    [][ \A p \in Calls :
          /\ C12_RequestAfterBootstrap(p)
          /\ pc[p] \notin AfterDomainRequest /\ pc'[p] = "rejected"
             => err'[p] \in { toApiError(e) : e \in BootstrapErrors(p) } ]_vars

\* one call was rejected by a failed login exchange with the classified
\* error and issued no domain request; another completed its bootstrap and
\* issued its domain request
C12_Witness ==
    /\ failure = AxiosError("12002", "400")
    /\ \E p, q \in Calls :
          /\ pc[p] = "rejected" /\ sent[p].login /\ ~sent[p].domain
          /\ err[p] = ApiError("12002", "400")
          /\ pc[q] = "resolved" /\ sent[q].login /\ sent[q].domain

\* C13: a domain request issued while a session token is held is sent by a
\* client whose Impact-Authorization header is 'Bearer ' followed by the
\* token held at that moment.
C13_RequestCarriesHeldToken ==
    [][ \A p \in Calls :
          SendDomainRequest(p) /\ Truthy(impactToken)
          => axiosConfig.headers["Impact-Authorization"] = "Bearer " \o impactToken ]_vars

\* where a call stands while an HTTP request of its own awaits its response
AwaitingResponse == {"lookup", "login", "domain"}

\* C14: no step replaces the HTTP client or its bound cookie jar while a
\* request issued on that client is in flight.  (A request in flight was
\* issued on the current client unless an earlier step already replaced the
\* client under it, so it is enough to look at the requests that are in
\* flight before and after the replacing step.)
C14_NoReplacementUnderRequest ==
    [][ axios' # axios \/ axiosConfig'.jar # axiosConfig.jar
        => \A p \in Calls : ~(pc[p] \in AwaitingResponse /\ pc'[p] = pc[p]) ]_vars

\* C15: once a session token is held, a token is held in every later state.
C15_TokenStaysHeld == [][ Truthy(impactToken) => Truthy(impactToken') ]_vars

\* C16: once the routing path is present its value never changes, and no
\* gateway lookup is issued any more.
C16_PathResolvedOnce ==
    [][ Truthy(jhUserPath) => jhUserPath' = jhUserPath /\ numLookups' = numLookups ]_vars

\* C17: the steps of a bootstrap are sequential: a call issues its login
\* exchange only in a state where the routing path is present and only once
\* its own path step is complete, and its path step completes only by finding
\* the path present or by a gateway lookup of its own answered with a path.
C17_PathBeforeLogin ==
    [][ \A p \in Calls :
          /\ sent'[p].login /\ ~sent[p].login
             => Truthy(jhUserPath) /\ pc[p] = "token" /\ pc'[p] = "login"
          /\ pc'[p] = "token" /\ pc[p] # "token"
             => \/ pc[p] = "path" /\ Truthy(jhUserPath) /\ sent'[p] = sent[p]
                \/ pc[p] = "lookup" /\ sent[p].lookup /\ Truthy(jhUserPath')
          /\ pc[p] \in {"idle", "imp1", "path", "lookup"} => ~sent[p].login ]_vars

\* a call has issued its login exchange after a gateway lookup of its own
C17_Witness ==
    \E p \in Calls :
        /\ pc[p] = "login"
        /\ sent[p].lookup /\ sent[p].login
        /\ Truthy(jhUserPath)

\* C18: setImpactToken(t) always replaces the client by one configured with
\* the gateway credential and 'Bearer t', and a cookie jar bound to the
\* configuration before the call is still the bound jar after it.
C18_SetTokenKeepsJar ==
    [][ \A t \in {SetToken(n) : n \in 1..MaxSets} :
          setImpactToken(t)
          => /\ axios' # axios
             /\ axiosConfig'.headers["Authorization"] = "token " \o jhToken
             /\ axiosConfig'.headers["Impact-Authorization"] = "Bearer " \o t
             /\ isConfiguredForNode(axiosConfig)
                => getNodeCookieJar(axiosConfig') = getNodeCookieJar(axiosConfig) ]_vars

\* the step in which call p invokes ensureAxiosConfig: at its invocation,
\* and after the token was read back from document.cookie or from the jar
EntersEnsureAxiosConfig(p) ==
    \/ pc[p] = "idle" /\ pc'[p] # "idle"
    \/ pc[p] \in {"login", "getCookies"} /\ pc'[p] \in {"ready", "imp2"}

\* the step in which an invocation of ensureAxiosConfig by call p returns
ReturnsFromEnsureAxiosConfig(p) ==
    \/ pc[p] \in {"idle", "imp1"} /\ pc'[p] = "path"
    \/ pc[p] \in {"login", "getCookies", "imp2"} /\ pc'[p] = "ready"

\* C19: ensureAxiosConfig is idempotent: invoked when the configuration is
\* current for the token, it returns at once and leaves the client, the
\* headers and the bound jar as they are; and when an invocation returns the
\* configuration is current, so that a second invocation changes nothing.
C19_EnsureAxiosConfigIdempotent ==
    [][ \A p \in Calls :
          /\ EntersEnsureAxiosConfig(p) /\ ~NeedsRebuild(isNode, impactToken', axiosConfig)
             => /\ ReturnsFromEnsureAxiosConfig(p)
                /\ axios' = axios
                /\ axiosConfig' = axiosConfig
          /\ ReturnsFromEnsureAxiosConfig(p)
             => /\ ~NeedsRebuild(isNode, impactToken', axiosConfig')
                /\ EnsureAxiosConfigEnter(impactToken', axiosConfig', axios')
                     = [cfg |-> axiosConfig', axios |-> axios', imports |-> FALSE] ]_vars

\* headless: one call has rebuilt the client with a jar and the header of
\* the token it acquired, and the invocation of ensureAxiosConfig by the next
\* call has returned without building another
C19_Witness ==
    \E p, q \in Calls :
        /\ isNode /\ sets = 0 /\ ~supplied.token
        /\ sent[p].login /\ pc[p] = "resolved"
        /\ pc[q] = "path"
        /\ isConfiguredForNode(axiosConfig) /\ isConfiguredForImpact(axiosConfig)
        /\ axios = 3

\* C20: headless: the jar queried after the login exchange of a call is the
\* jar that was bound to the client that sent the login request, so that the
\* call is rejected with MissingAccessTokenCookie only when its login
\* response set no access_token cookie.
C20_QueriesSendersJar ==
    [][ \A p \in Calls :
          /\ isNode /\ pc[p] = "login" /\ pc'[p] = "getCookies"
             => getNodeCookieJar(axiosConfig) = reqJar[p]
          /\ ( /\ isNode /\ pc[p] = "getCookies" /\ pc'[p] = "rejected"
               /\ err'[p] = ApiError(MissingAccessTokenCookie, Undefined) )
             => ~FoundInJarCookies(AccessTokenKey, loginCookies[p]) ]_vars

\* C21: headless: when a call reads the token back after its login exchange
\* a cookie jar is bound to the configuration, so the read goes through the
\* jar and never through getCookieValue (document.cookie).
C21_NoDocumentCookieWhenHeadless ==
    [][ \A p \in Calls :
          isNode /\ LoginSucceeds(p)
          => /\ isConfiguredForNode(axiosConfig)
             /\ pc'[p] = "getCookies"
             /\ err'[p] # ReferenceError ]_vars

\* C22: headless: every request a call issues (gateway lookup, login
\* exchange, domain request) is sent while a cookie jar is bound to the
\* client's configuration.
C22_RequestsSentWithJar ==
    [][ \A p \in Calls :
          isNode /\ sent'[p] # sent[p] => isConfiguredForNode(axiosConfig) ]_vars

\* C23: the step in which the bootstrap of a call fails (gateway lookup
\* failed or answered without a server, login exchange failed, no
\* access_token cookie) leaves the routing path, the session token and the
\* transport configuration as they were, so what was absent stays absent,
\* and issues no request; the failing call issues none later either.  A call
\* that finds the path absent issues a gateway lookup, and one that finds the
\* path present and the token absent issues a login exchange and no lookup.
C23_FailureLeavesState ==
    [][ /\ SettledStays
        /\ \A p \in Calls :
              /\ pc[p] \notin AfterDomainRequest /\ pc'[p] = "rejected"
                 => /\ jhUserPath' = jhUserPath
                    /\ impactToken' = impactToken
                    /\ axiosConfig' = axiosConfig /\ axios' = axios
                    /\ sent' = sent
              /\ EnsureJhUserPath(p)
                 => sent'[p].lookup = ~Truthy(jhUserPath)
              /\ AcquireToken(p)
                 => sent'[p].login = ~Truthy(impactToken) /\ sent'[p].lookup = sent[p].lookup
      ]_vars

\* the login exchange of one call failed after its gateway lookup; the token
\* is still absent and the path present, and another call has issued a login
\* exchange without a gateway lookup
C23_Witness ==
    \E p, q \in Calls :
        /\ sets = 0
        /\ pc[p] = "rejected" /\ sent[p].lookup /\ sent[p].login
        /\ err[p] = toApiError(failure)
        /\ ~Truthy(impactToken) /\ Truthy(jhUserPath)
        /\ pc[q] = "login" /\ ~sent[q].lookup

\* C24: the error a call is rejected with is what toApiError makes of the
\* error thrown: an error that is not an AxiosError (JhTokenError,
\* ServerNotStarted, MissingAccessTokenCookie, a ReferenceError) reaches the
\* caller as the same value; an AxiosError becomes an ApiError that carries
\* the status of the response, if any, with the code of the structured error
\* body, and with UnknownApiError when there is no such code.
C24_ClassifierKeepsKind ==
    [][ \A p \in Calls :
          pc'[p] = "rejected" /\ pc[p] # "rejected"
          => \E e \in Thrown(p) :
                /\ err'[p] = toApiError(e)
                /\ e.cls # "AxiosError" => err'[p] = e
                /\ e.cls = "AxiosError"
                   => /\ err'[p].cls = "ApiError"
                      /\ err'[p].http = e.http
                      /\ err'[p].code = IF Truthy(e.code) THEN e.code ELSE UnknownApiError
      ]_vars

\* one call was rejected by its bootstrap with ServerNotStarted and another
\* by a domain request that failed with a bare 401
C24_Witness ==
    \E p, q \in Calls :
        /\ failure = AxiosError(Undefined, "401")
        /\ pc[p] = "rejected" /\ err[p] = ApiError(ServerNotStarted, Undefined)
        /\ pc[q] = "rejected" /\ sent[q].domain
        /\ err[q] = ApiError(UnknownApiError, "401")

====
